---- MODULE Spec2Model ----
(***************************************************************************)
(* A model of qualia's storage engine (src/qualia/database.py): the        *)
(* content-addressed blob store under <root>/files/<hash[0:2]>/<hash>, the *)
(* hash-prefix resolution, the File entity with its pending modifications, *)
(* and the add / delete / save / checkpoint / undo operations of Database. *)
(* The journal and the search index live in journal.py and search.py; they *)
(* are modelled from their documented contract.                            *)
(*                                                                         *)
(* Python strings are sequences of one-character strings and None is the   *)
(* empty sequence; a dict is a function whose domain is the keys it holds. *)
(***************************************************************************)
EXTENDS Integers, Sequences, FiniteSets, TLC

VARIABLES
    files,        \* blobs on disk: a set of paths <<shard directory, file name>>
    partial,      \* the blobs on disk whose content was not written to the end
    dirs,         \* shard directories that exist under <root>/files
    index,        \* search index: stored hash -> metadata mapping
    journal,      \* the transaction log, oldest first
    checkpoints,  \* checkpoint boundaries: journal length at each checkpoint()
    clock,        \* datetime.now(), as a logical clock
    cur,          \* the File object the caller holds: <<>> or <<file>>
    last,         \* the last call: operation, arguments, outcome
    hist          \* history: for each journal entry, the saved value of its
                  \* field just before the call that appended the entry

vars == <<files, partial, dirs, index, journal, checkpoints, clock, cur, last, hist>>

(***************************************************************************)
(* Strings.                                                                *)
(***************************************************************************)
None == <<>>

Min(a, b) == IF a < b THEN a ELSE b

\* s[:n]
Take(s, n) == SubSeq(s, 1, Min(n, Len(s)))

IsPrefix(s, t) == Len(s) <= Len(t) /\ SubSeq(t, 1, Len(s)) = s

\* string.hexdigits
hexdigits ==
    {"0", "1", "2", "3", "4", "5", "6", "7", "8", "9",
     "a", "b", "c", "d", "e", "f", "A", "B", "C", "D", "E", "F"}

\* str.lower() on one character
lower(c) ==
    CASE c = "A" -> "a" [] c = "B" -> "b" [] c = "C" -> "c"
      [] c = "D" -> "d" [] c = "E" -> "e" [] c = "F" -> "f"
      [] OTHER -> c

\* ord() of the characters hashes are made of
Ord(c) ==
    CASE c = "0" -> 48 [] c = "1" -> 49 [] c = "2" -> 50 [] c = "3" -> 51
      [] c = "4" -> 52 [] c = "5" -> 53 [] c = "6" -> 54 [] c = "7" -> 55
      [] c = "8" -> 56 [] c = "9" -> 57
      [] c = "A" -> 65 [] c = "B" -> 66 [] c = "C" -> 67
      [] c = "D" -> 68 [] c = "E" -> 69 [] c = "F" -> 70
      [] c = "a" -> 97 [] c = "b" -> 98 [] c = "c" -> 99
      [] c = "d" -> 100 [] c = "e" -> 101 [] c = "f" -> 102
      [] OTHER -> 122

\* Python's < on strings
RECURSIVE StrLess(_, _)
StrLess(s, t) ==
    IF t = <<>> THEN FALSE
    ELSE IF s = <<>> THEN TRUE
    ELSE IF Ord(Head(s)) # Ord(Head(t)) THEN Ord(Head(s)) < Ord(Head(t))
    ELSE StrLess(Tail(s), Tail(t))

(***************************************************************************)
(* Inputs.  hashlib.sha512(...).hexdigest() is a fixed table from the      *)
(* contents the caller may add to lowercase hexadecimal digests: c1 and c2 *)
(* share a shard and differ in their fourth character, c3 shares only the  *)
(* first character with them.                                              *)
(***************************************************************************)
Contents == {"c1", "c2", "c3"}

sha512(content) ==
    CASE content = "c1" -> <<"a", "b", "c", "d">>
      [] content = "c2" -> <<"a", "b", "c", "e">>
      [] content = "c3" -> <<"a", "1", "0", "0">>

Hashes == {sha512(c) : c \in Contents}

Values == {<<"A">>, <<"B">>}

\* self.fields: the field schema of the database
fields ==
    [title  |-> [type |-> "exact-text", read_only |-> FALSE],
     origin |-> [type |-> "exact-text", read_only |-> TRUE]]

FieldNames == DOMAIN fields

\* the empty metadata mapping, {}
NoMetadata == [k \in {} |-> None]

\* d.get(k)
dict_get(d, k) == IF k \in DOMAIN d THEN d[k] ELSE None

\* d[k] = v
dict_set(d, k, v) == [x \in DOMAIN d \cup {k} |-> IF x = k THEN v ELSE d[x]]

\* d.pop(k, None)
dict_pop(d, k) == [x \in DOMAIN d \ {k} |-> d[x]]

(***************************************************************************)
(* _validate_hash                                                          *)
(***************************************************************************)
_validate_hash(hash) ==
    IF \E i \in 1..Len(hash) : hash[i] \notin hexdigits
    THEN [err |-> "ValueError", hash |-> hash]
    ELSE [err |-> "ok", hash |-> [i \in 1..Len(hash) |-> lower(hash[i])]]

(***************************************************************************)
(* File                                                                    *)
(***************************************************************************)
\* File.__init__
File(hash, metadata) ==
    [hash |-> hash,
     metadata |-> IF "hash" \in DOMAIN metadata
                  THEN metadata ELSE dict_set(metadata, "hash", hash),
     modifications |-> <<>>]

\* a faulty set_metadata that does not look at the schema's read-only flag
set_metadata_unchecked(f, field, value, source) ==
    IF field \notin DOMAIN fields
    THEN [err |-> "FieldDoesNotExist", f |-> f]
    ELSE [err |-> "ok",
          f |-> [f EXCEPT
                   !.modifications =
                       Append(@, <<source, field, dict_get(f.metadata, field), value>>),
                   !.metadata = IF value = None THEN dict_pop(@, field)
                                ELSE dict_set(@, field, value)]]

\* a faulty set_metadata that stores None instead of removing the field
set_metadata_storing_none(f, field, value, source) ==
    IF field \notin DOMAIN fields
    THEN [err |-> "FieldDoesNotExist", f |-> f]
    ELSE IF field \in DOMAIN f.metadata /\ fields[field].read_only
    THEN [err |-> "FieldReadOnly", f |-> f]
    ELSE [err |-> "ok",
          f |-> [f EXCEPT
                   !.modifications =
                       Append(@, <<source, field, dict_get(f.metadata, field), value>>),
                   !.metadata = dict_set(@, field, value)]]

\* File.set_metadata
set_metadata(f, field, value, source) ==
    IF field \notin DOMAIN fields
    THEN [err |-> "FieldDoesNotExist", f |-> f]
    ELSE IF field \in DOMAIN f.metadata /\ fields[field].read_only
    THEN [err |-> "FieldReadOnly", f |-> f]
    ELSE [err |-> "ok",
          f |-> [f EXCEPT
                   !.modifications =
                       Append(@, <<source, field, dict_get(f.metadata, field), value>>),
                   !.metadata = IF value = None THEN dict_pop(@, field)
                                ELSE dict_set(@, field, value)]]

(***************************************************************************)
(* The blob store                                                          *)
(***************************************************************************)
get_directory_for_hash(hash) == Take(hash, 2)

get_filename_for_hash(hash) == <<get_directory_for_hash(hash), hash>>

\* fnmatch of one path component against a pattern whose only wildcard is a
\* trailing "*"
fnmatch(name, pat) ==
    IF pat # <<>> /\ pat[Len(pat)] = "*"
    THEN IsPrefix(SubSeq(pat, 1, Len(pat) - 1), name)
    ELSE name = pat

\* glob.iglob over <root>/files/<directory pattern>/<file pattern>
iglob(fs, pattern) ==
    {p \in fs : fnmatch(p[1], pattern[1]) /\ fnmatch(p[2], pattern[2])}

\* a faulty find_hashes that does not normalize the prefix to lowercase
find_hashes_cased(fs, prefix) ==
    {p[2] : p \in iglob(fs, get_filename_for_hash(prefix \o <<"*">>))}

\* Database.find_hashes: the basenames of the matching blobs
find_hashes(fs, prefix) ==
    {p[2] : p \in iglob(fs, get_filename_for_hash(_validate_hash(prefix).hash \o <<"*">>))}

\* Database.get_shortest_hash: the loop from `baselen`.  Once baselen has
\* passed the end of the string, hash[:baselen] no longer changes, and a
\* prefix that is still ambiguous then keeps the loop running for ever.
RECURSIVE shortest_from(_, _, _)
shortest_from(fs, hash, baselen) ==
    IF _validate_hash(Take(hash, baselen)).err # "ok"
    THEN [err |-> "ValueError", hash |-> None]
    ELSE IF Cardinality(find_hashes(fs, Take(hash, baselen))) < 2
    THEN [err |-> "ok", hash |-> Take(hash, baselen)]
    ELSE IF baselen >= Len(hash)
    THEN [err |-> "diverges", hash |-> None]
    ELSE shortest_from(fs, hash, baselen + 2)

\* a faulty get_shortest_hash whose base length is 4
get_shortest_hash_from4(fs, hash) == shortest_from(fs, hash, 4)

get_shortest_hash(fs, hash) == shortest_from(fs, hash, 2)

(***************************************************************************)
(* The search index (search.py), from its contract: add(hash) creates the  *)
(* entry of a file, get(hash) returns its metadata mapping, save(file)     *)
(* persists the file's current metadata, delete(file) removes the entry.   *)
(***************************************************************************)
searchdb_add(idx, hash) ==
    [h \in DOMAIN idx \cup {hash} |-> IF h = hash THEN NoMetadata ELSE idx[h]]

searchdb_get(idx, hash) == IF hash \in DOMAIN idx THEN idx[hash] ELSE NoMetadata

searchdb_save(idx, f) ==
    [h \in DOMAIN idx \cup {f.hash} |-> IF h = f.hash THEN f.metadata ELSE idx[h]]

searchdb_delete(idx, f) == [h \in DOMAIN idx \ {f.hash} |-> idx[h]]

(***************************************************************************)
(* The journal (journal.py), from its contract: append adds one record at  *)
(* the end; a checkpoint holds the transactions appended after the         *)
(* previous boundary and up to its own.                                    *)
(***************************************************************************)
journal_append(j, source, hash, op, extra, time) ==
    Append(j, [time |-> time, source |-> source, file |-> hash, op |-> op, extra |-> extra])

\* Journal.get_transactions(hash, op)
RECURSIVE get_transactions(_, _, _)
get_transactions(j, hash, op) ==
    IF j = <<>> THEN <<>>
    ELSE IF Head(j).file = hash /\ Head(j).op = op
    THEN <<Head(j)>> \o get_transactions(Tail(j), hash, op)
    ELSE get_transactions(Tail(j), hash, op)

\* the id undo(None) stands for: the latest checkpoint
latest == 0

\* Journal.get_checkpoint: <<>> for an unknown id, else <<transactions>>
get_checkpoint(j, cps, checkpoint_id) ==
    LET id == IF checkpoint_id = latest THEN Len(cps) ELSE checkpoint_id IN
    IF id \notin 1..Len(cps) THEN <<>>
    ELSE <<SubSeq(j, (IF id = 1 THEN 0 ELSE cps[id - 1]) + 1, cps[id])>>

(***************************************************************************)
(* Database                                                                *)
(***************************************************************************)
\* Database.get
get(fs, idx, short_hash) ==
    IF _validate_hash(short_hash).err # "ok"
    THEN [err |-> "ValueError", f |-> <<>>]
    ELSE LET result == find_hashes(fs, short_hash) IN
         IF result = {} THEN [err |-> "FileDoesNotExist", f |-> <<>>]
         ELSE IF Cardinality(result) > 1 THEN [err |-> "AmbiguousHash", f |-> <<>>]
         ELSE LET hash == CHOOSE h \in result : TRUE IN
              [err |-> "ok", f |-> <<File(hash, searchdb_get(idx, hash))>>]

\* self.journal.append(...) on the database `db`, a record of the stores;
\* `prior` is the history kept beside the new entry
log(db, source, hash, op, extra, time, prior) ==
    [db EXCEPT !.journal = journal_append(@, source, hash, op, extra, time),
               !.hist = Append(@, prior),
               !.clock = time]

\* where an add can stop short: the process dies once the journal entry is
\* written, open(filename, 'wb') fails, or copyfileobj fails part-way
Faults == {"crash", "open", "copyfileobj"}

\* the steps of add_file after the check for an existing blob, up to `fault`
add_file_steps(made, hash, source, fault) ==
    LET filename == get_filename_for_hash(hash)
        logged == log(made, source, hash, "add", <<>>, made.clock + 1, None)
        indexed == [logged EXCEPT !.index = searchdb_add(@, hash)]
        opened == [indexed EXCEPT !.files = @ \cup {filename},
                                  !.partial = @ \cup {filename}]
        copied == [opened EXCEPT !.partial = @ \ {filename}]
    IN  CASE fault = "crash" -> [err |-> "crash", db |-> logged, f |-> <<>>]
          [] fault = "open" -> [err |-> "OSError", db |-> indexed, f |-> <<>>]
          [] fault = "copyfileobj" -> [err |-> "OSError", db |-> opened, f |-> <<>>]
          [] OTHER -> [err |-> "ok", db |-> copied, f |-> <<File(hash, NoMetadata)>>]

\* a faulty add_file without the check for an existing blob
add_file_unchecked(db, content, source, fault) ==
    LET hash == sha512(content)
        made == [db EXCEPT !.dirs = @ \cup {get_directory_for_hash(hash)}]
    IN  add_file_steps(made, hash, source, fault)

\* a faulty add_file that writes the blob before the journal and the index
add_file_blob_first(db, content, source, fault) ==
    LET hash == sha512(content)
        made == [db EXCEPT !.dirs = @ \cup {get_directory_for_hash(hash)}]
        filename == get_filename_for_hash(hash)
        opened == [made EXCEPT !.files = @ \cup {filename},
                               !.partial = @ \cup {filename}]
        copied == [opened EXCEPT !.partial = @ \ {filename}]
        logged == log(copied, source, hash, "add", <<>>, made.clock + 1, None)
        indexed == [logged EXCEPT !.index = searchdb_add(@, hash)]
    IN  IF filename \in made.files
        THEN [err |-> "FileExists", db |-> made, f |-> <<>>]
        ELSE CASE fault = "crash" -> [err |-> "crash", db |-> copied, f |-> <<>>]
               [] fault = "open" -> [err |-> "OSError", db |-> made, f |-> <<>>]
               [] fault = "copyfileobj" -> [err |-> "OSError", db |-> opened, f |-> <<>>]
               [] OTHER -> [err |-> "ok", db |-> indexed, f |-> <<File(hash, NoMetadata)>>]

\* Database.add_file; `fault` is where the call stops short, if it does
add_file(db, content, source, fault) ==
    LET hash == sha512(content)
        made == [db EXCEPT !.dirs = @ \cup {get_directory_for_hash(hash)}]
        filename == get_filename_for_hash(hash)
    IN  IF filename \in made.files
        THEN [err |-> "FileExists", db |-> made, f |-> <<>>]
        ELSE add_file_steps(made, hash, source, fault)

\* a faulty delete that leaves the index entry of the file in place
delete_unindexed(db, f, source) ==
    LET logged == log(db, source, f.hash, "delete", <<>>, db.clock + 1, None)
        filename == get_filename_for_hash(f.hash)
    IN  IF filename \notin logged.files
        THEN [err |-> "OSError", db |-> logged]
        ELSE [err |-> "AttributeError",
              db |-> [logged EXCEPT !.files = @ \ {filename},
                                    !.partial = @ \ {filename}]]

\* Database.delete.  Database has no attribute rmdir, so self.rmdir raises
\* AttributeError, which the `except OSError` clause does not catch.
delete(db, f, source) ==
    LET logged == log(db, source, f.hash, "delete", <<>>, db.clock + 1, None)
        filename == get_filename_for_hash(f.hash)
    IN  IF filename \notin logged.files
        THEN [err |-> "OSError", db |-> logged]
        ELSE LET unlinked == [logged EXCEPT !.files = @ \ {filename},
                                           !.partial = @ \ {filename}]
                 unindexed == [unlinked EXCEPT !.index = searchdb_delete(@, f)]
             IN  [err |-> "AttributeError", db |-> unindexed]

\* a faulty loop of save that goes through f.modifications newest first
RECURSIVE save_modifications_reversed(_, _, _, _, _)
save_modifications_reversed(db, hash, mods, t, saved) ==
    IF mods = <<>> THEN db
    ELSE LET m == mods[Len(mods)] IN
         save_modifications_reversed(
             log(db, m[1], hash, "set", <<m[2], m[3], m[4]>>, t, dict_get(saved, m[2])),
             hash, SubSeq(mods, 1, Len(mods) - 1), t, saved)

\* the loop of Database.save over f.modifications
RECURSIVE save_modifications(_, _, _, _, _)
save_modifications(db, hash, mods, t, saved) ==
    IF mods = <<>> THEN db
    ELSE LET m == Head(mods) IN
         save_modifications(
             log(db, m[1], hash, "set", <<m[2], m[3], m[4]>>, t, dict_get(saved, m[2])),
             hash, Tail(mods), t, saved)

\* a faulty save that writes the journal anew from the file's modifications
save_rewriting(db, f) ==
    LET t == db.clock + 1
        emptied == [db EXCEPT !.journal = <<>>, !.hist = <<>>]
        logged == save_modifications(emptied, f.hash, f.modifications, t,
                                     searchdb_get(db.index, f.hash))
        indexed == [logged EXCEPT !.index = searchdb_save(@, f)]
    IN  [err |-> "ok", db |-> indexed, f |-> [f EXCEPT !.modifications = <<>>]]

\* Database.save
save(db, f) ==
    LET t == db.clock + 1
        logged == save_modifications(db, f.hash, f.modifications, t,
                                     searchdb_get(db.index, f.hash))
        indexed == [logged EXCEPT !.index = searchdb_save(@, f)]
    IN  [err |-> "ok", db |-> indexed, f |-> [f EXCEPT !.modifications = <<>>]]

\* Database.restore_metadata.  A `set` transaction carries (field, old value,
\* value), which `field, value = transaction['extra']` cannot unpack; and
\* `for source, field, value in modifications.items()` unpacks (key, value)
\* pairs into three names.  Either raises ValueError before f is touched.
restore_metadata(db, f, only_auto) ==
    LET txs == get_transactions(db.journal, f.hash, "set")
        kept == {i \in 1..Len(txs) : ~(only_auto /\ txs[i].source = "auto")}
    IN  IF \E i \in kept : Len(txs[i].extra) # 2
        THEN [err |-> "ValueError", f |-> f]
        ELSE IF kept # {}
        THEN [err |-> "ValueError", f |-> f]
        ELSE [err |-> "ok", f |-> f]

(***************************************************************************)
(* Database.undo                                                           *)
(***************************************************************************)
CAN_UNDO == {"add", "set"}

\* the order of the operation names as Python strings
op_rank(op) == CASE op = "add" -> 1 [] op = "delete" -> 2 [] op = "set" -> 3

\* (a['file'], a['op']) < (b['file'], b['op'])
key_less(a, b) ==
    \/ StrLess(a.file, b.file)
    \/ a.file = b.file /\ op_rank(a.op) < op_rank(b.op)

\* sorted(transactions, key = ...): a stable sort, by insertion
RECURSIVE insert_sorted(_, _)
insert_sorted(done, t) ==
    IF done = <<>> THEN <<t>>
    ELSE IF key_less(t, Head(done)) THEN <<t>> \o done
    ELSE <<Head(done)>> \o insert_sorted(Tail(done), t)

RECURSIVE sorted(_)
sorted(txs) ==
    IF txs = <<>> THEN <<>>
    ELSE insert_sorted(sorted(SubSeq(txs, 1, Len(txs) - 1)), txs[Len(txs)])

\* itertools.groupby: the length of the first run of one file
RECURSIVE group_len(_, _)
group_len(txs, hash) ==
    IF txs = <<>> \/ Head(txs).file # hash THEN 0
    ELSE 1 + group_len(Tail(txs), hash)

\* a faulty inner loop of undo that leaves out the save of its else branch
RECURSIVE undo_transactions_unsaved(_, _, _)
undo_transactions_unsaved(db, f, txs) ==
    IF txs = <<>> THEN [err |-> "ok", db |-> db]
    ELSE LET transaction == Head(txs) IN
         IF transaction.op = "add"
         THEN delete(db, f, "user")
         ELSE IF transaction.op = "set"
         THEN LET r == set_metadata(f, transaction.extra[1], transaction.extra[2], "user") IN
              IF r.err # "ok" THEN [err |-> r.err, db |-> db]
              ELSE undo_transactions_unsaved(db, r.f, Tail(txs))
         ELSE undo_transactions_unsaved(db, f, Tail(txs))

\* the inner loop of undo over the transactions of one file, and its else
RECURSIVE undo_transactions(_, _, _)
undo_transactions(db, f, txs) ==
    IF txs = <<>> THEN [err |-> "ok", db |-> save(db, f).db]
    ELSE LET transaction == Head(txs) IN
         IF transaction.op = "add"
         THEN delete(db, f, "user")
         ELSE IF transaction.op = "set"
         THEN LET r == set_metadata(f, transaction.extra[1], transaction.extra[2], "user") IN
              IF r.err # "ok" THEN [err |-> r.err, db |-> db]
              ELSE undo_transactions(db, r.f, Tail(txs))
         ELSE undo_transactions(db, f, Tail(txs))

\* the outer loop of undo over the files of the checkpoint
RECURSIVE undo_groups(_, _)
undo_groups(db, txs) ==
    IF txs = <<>> THEN [err |-> "ok", db |-> db]
    ELSE LET hash == Head(txs).file
             n == group_len(txs, hash)
             g == get(db.files, db.index, hash)
         IN  IF g.err # "ok" THEN [err |-> g.err, db |-> db]
             ELSE LET r == undo_transactions(db, g.f[1], SubSeq(txs, 1, n)) IN
                  IF r.err # "ok" THEN r
                  ELSE undo_groups(r.db, SubSeq(txs, n + 1, Len(txs)))

\* a faulty undo that takes the whole journal for a checkpoint it does not
\* know
undo_unresolved(db, cps, checkpoint_id) ==
    LET known == get_checkpoint(db.journal, cps, checkpoint_id)
        checkpoint == IF known = <<>> THEN <<db.journal>> ELSE known
    IN  IF \E i \in 1..Len(checkpoint[1]) : checkpoint[1][i].op \notin CAN_UNDO
        THEN [err |-> "UndoFailed", db |-> db]
        ELSE undo_groups(db, sorted(checkpoint[1]))

\* a faulty undo that does not validate the operations of the checkpoint
undo_unvalidated(db, cps, checkpoint_id) ==
    LET checkpoint == get_checkpoint(db.journal, cps, checkpoint_id) IN
    IF checkpoint = <<>> THEN [err |-> "CheckpointDoesNotExist", db |-> db]
    ELSE undo_groups(db, sorted(checkpoint[1]))

\* Database.undo
undo(db, cps, checkpoint_id) ==
    LET checkpoint == get_checkpoint(db.journal, cps, checkpoint_id) IN
    IF checkpoint = <<>> THEN [err |-> "CheckpointDoesNotExist", db |-> db]
    ELSE IF \E i \in 1..Len(checkpoint[1]) : checkpoint[1][i].op \notin CAN_UNDO
    THEN [err |-> "UndoFailed", db |-> db]
    ELSE undo_groups(db, sorted(checkpoint[1]))

(***************************************************************************)
(* The state machine: one action per call of the caller.                   *)
(***************************************************************************)
\* the stores, as the record the operations above work on
DB ==
    [files |-> files, partial |-> partial, dirs |-> dirs, index |-> index,
     journal |-> journal, hist |-> hist, clock |-> clock]

Store(db) ==
    /\ files' = db.files
    /\ partial' = db.partial
    /\ dirs' = db.dirs
    /\ index' = db.index
    /\ journal' = db.journal
    /\ hist' = db.hist
    /\ clock' = db.clock

Call(op, err, arg, field, source, cp, ret) ==
    [op |-> op, err |-> err, arg |-> arg, field |-> field, source |-> source,
     cp |-> cp, ret |-> ret]

Init ==
    /\ files = {}
    /\ partial = {}
    /\ dirs = {}
    /\ index = <<>>
    /\ journal = <<>>
    /\ checkpoints = <<>>
    /\ clock = 0
    /\ cur = <<>>
    /\ last = Call("init", "ok", None, "", "", -1, None)
    /\ hist = <<>>

\* f = db.add_file(content, source = source)
AddFile(content, source) ==
    LET r == add_file(DB, content, source, "none") IN
    /\ Store(r.db)
    /\ cur' = IF r.err = "ok" THEN r.f ELSE cur
    /\ last' = Call("add", r.err, sha512(content), "", source, -1, None)
    /\ UNCHANGED checkpoints

\* db.add_file(content, source = source), cut short by a crash or an I/O
\* failure; the caller gets no File
AddFileInterrupted(content, source, fault) ==
    LET r == add_file(DB, content, source, fault) IN
    /\ Store(r.db)
    /\ cur' = cur
    /\ last' = Call("add", r.err, sha512(content), "", source, -1, None)
    /\ UNCHANGED checkpoints

\* f = db.get(short_hash)
Get(short_hash) ==
    LET r == get(files, index, short_hash) IN
    /\ cur' = IF r.err = "ok" THEN r.f ELSE cur
    /\ last' = Call("get", r.err, short_hash, "", "", -1,
                    IF r.err = "ok" THEN r.f[1].hash ELSE None)
    /\ UNCHANGED <<files, partial, dirs, index, journal, checkpoints, clock, hist>>

\* a faulty f.set_metadata(field, value, source) that writes the edit
\* through to the journal and the index
SetMetadataThrough(field, value, source) ==
    /\ cur # <<>>
    /\ LET r == set_metadata(cur[1], field, value, source)
           w == save(DB, r.f)
       IN  /\ Store(IF r.err = "ok" THEN w.db ELSE DB)
           /\ cur' = <<IF r.err = "ok" THEN w.f ELSE r.f>>
           /\ last' = Call("set_metadata", r.err, value, field, source, -1, None)
    /\ UNCHANGED checkpoints

\* f.set_metadata(field, value, source)
SetMetadata(field, value, source) ==
    /\ cur # <<>>
    /\ LET r == set_metadata(cur[1], field, value, source) IN
       /\ cur' = <<r.f>>
       /\ last' = Call("set_metadata", r.err, value, field, source, -1, None)
    /\ UNCHANGED <<files, partial, dirs, index, journal, checkpoints, clock, hist>>

\* db.save(f)
Save ==
    /\ cur # <<>>
    /\ LET r == save(DB, cur[1]) IN
       /\ Store(r.db)
       /\ cur' = <<r.f>>
       /\ last' = Call("save", r.err, cur[1].hash, "", "", -1, None)
    /\ UNCHANGED checkpoints

\* A File object is a view of a file that exists in the database: the caller
\* drops the object it holds once its file has been deleted.
held(fs, handle) ==
    IF handle # <<>> /\ get_filename_for_hash(handle[1].hash) \in fs
    THEN handle ELSE <<>>

\* db.delete(f)
Delete ==
    /\ cur # <<>>
    /\ LET r == delete(DB, cur[1], "user") IN
       /\ Store(r.db)
       /\ cur' = held(r.db.files, cur)
       /\ last' = Call("delete", r.err, cur[1].hash, "", "user", -1, None)
    /\ UNCHANGED checkpoints

\* db.checkpoint(), called once the transactions of an operation are written
Checkpoint ==
    /\ Len(journal) > (IF checkpoints = <<>> THEN 0 ELSE checkpoints[Len(checkpoints)])
    /\ checkpoints' = Append(checkpoints, Len(journal))
    /\ last' = Call("checkpoint", "ok", None, "", "", Len(checkpoints) + 1, None)
    /\ UNCHANGED <<files, partial, dirs, index, journal, clock, cur, hist>>

\* db.undo(checkpoint_id)
Undo(checkpoint_id) ==
    LET r == undo(DB, checkpoints, checkpoint_id) IN
    /\ Store(r.db)
    /\ cur' = held(r.db.files, cur)
    /\ last' = Call("undo", r.err, None, "", "", checkpoint_id, None)
    /\ UNCHANGED checkpoints

\* db.restore_metadata(f, only_auto)
RestoreMetadata(only_auto) ==
    /\ cur # <<>>
    /\ LET r == restore_metadata(DB, cur[1], only_auto) IN
       /\ cur' = <<r.f>>
       /\ last' = Call("restore_metadata", r.err, cur[1].hash, "",
                       IF only_auto THEN "only_auto" ELSE "all", -1, None)
    /\ UNCHANGED <<files, partial, dirs, index, journal, checkpoints, clock, hist>>

\* f.short_hash
ShortHash ==
    /\ cur # <<>>
    /\ LET r == get_shortest_hash(files, cur[1].hash) IN
       last' = Call("short_hash", r.err, cur[1].hash, "", "", -1, r.hash)
    /\ UNCHANGED <<files, partial, dirs, index, journal, checkpoints, clock, cur, hist>>

\* db.get_shortest_hash(hash), for any string
GetShortestHash(hash) ==
    /\ LET r == get_shortest_hash(files, hash) IN
       last' = Call("get_shortest_hash", r.err, hash, "", "", -1, r.hash)
    /\ UNCHANGED <<files, partial, dirs, index, journal, checkpoints, clock, cur, hist>>

\* the caller stops before the journal, the checkpoints or the pending
\* modifications of the file it holds outgrow the given bounds
Within(max_journal, max_checkpoints, max_mods) ==
    /\ Len(journal') <= max_journal
    /\ Len(checkpoints') <= max_checkpoints
    /\ cur' # <<>> => Len(cur'[1].modifications) <= max_mods

(***************************************************************************)
(* Checkpoints and undo over two files in different shards that are added, *)
(* deleted and edited in a writable and a read-only field.                 *)
(***************************************************************************)
MaxJournal == 3
MaxCheckpoints == 2
MaxMods == 1

Bounded == Within(MaxJournal, MaxCheckpoints, MaxMods)

UndoContents == {"c1", "c3"}

UndoEdits == {<<"title", <<"A">>>>, <<"origin", <<"A">>>>}

Next ==
    \/ \E c \in UndoContents : AddFile(c, "user") /\ Bounded
    \/ \E c \in UndoContents : Get(sha512(c)) /\ Bounded
    \/ \E e \in UndoEdits : SetMetadata(e[1], e[2], "user") /\ Bounded
    \/ Save /\ Bounded
    \/ Delete /\ Bounded
    \/ Checkpoint /\ Bounded
    \/ \E id \in 0..(Len(checkpoints) + 1) : Undo(id) /\ Bounded

Spec == Init /\ [][Next]_vars

(***************************************************************************)
(* Checkpoints and undo over one file that is added, deleted and edited in *)
(* a writable and a read-only field.                                       *)
(***************************************************************************)
MaxEditJournal == 4
MaxEditCheckpoints == 2
MaxEditMods == 1

EditBounded == Within(MaxEditJournal, MaxEditCheckpoints, MaxEditMods)

EditEdits == {<<"title", <<"A">>>>, <<"origin", <<"A">>>>}

NextEdit ==
    \/ AddFile("c1", "user") /\ EditBounded
    \/ Get(sha512("c1")) /\ EditBounded
    \/ \E e \in EditEdits : SetMetadata(e[1], e[2], "user") /\ EditBounded
    \/ Save /\ EditBounded
    \/ Delete /\ EditBounded
    \/ Checkpoint /\ EditBounded
    \/ \E id \in 0..(Len(checkpoints) + 1) : Undo(id) /\ EditBounded

SpecEdit == Init /\ [][NextEdit]_vars

(***************************************************************************)
(* Reverting edits: one file whose title is set by an importer and cleared *)
(* by the user, several edits to a save and to a checkpoint, and a journal *)
(* long enough to hold them and the entries of their undo.                 *)
(***************************************************************************)
MaxRevertJournal == 5
MaxRevertCheckpoints == 2
MaxRevertMods == 2

RevertBounded == Within(MaxRevertJournal, MaxRevertCheckpoints, MaxRevertMods)

\* (field, value, source) of the set_metadata calls
RevertEdits == {<<"title", <<"A">>, "auto">>, <<"title", None, "user">>}

NextRevert ==
    \/ AddFile("c1", "user") /\ RevertBounded
    \/ Get(sha512("c1")) /\ RevertBounded
    \/ \E e \in RevertEdits : SetMetadata(e[1], e[2], e[3]) /\ RevertBounded
    \/ Save /\ RevertBounded
    \/ Checkpoint /\ RevertBounded
    \/ \E id \in 0..(Len(checkpoints) + 1) : Undo(id) /\ RevertBounded

SpecRevert == Init /\ [][NextRevert]_vars

(***************************************************************************)
(* Editing one file: fields of the schema and one outside it, set and      *)
(* cleared by the user and by importers, saved and restored.               *)
(***************************************************************************)
MaxFileJournal == 3
MaxFileMods == 2

FileBounded == Within(MaxFileJournal, 0, MaxFileMods)

\* (field, value, source) of the set_metadata calls
FileEdits ==
    {<<"title", <<"A">>, "user">>, <<"title", <<"B">>, "auto">>,
     <<"title", None, "user">>, <<"origin", <<"A">>, "auto">>,
     <<"origin", None, "user">>, <<"bogus", <<"A">>, "user">>}

NextFile ==
    \/ AddFile("c1", "user") /\ FileBounded
    \/ Get(sha512("c1")) /\ FileBounded
    \/ \E e \in FileEdits : SetMetadata(e[1], e[2], e[3]) /\ FileBounded
    \/ Save /\ FileBounded
    \/ \E only_auto \in BOOLEAN : RestoreMetadata(only_auto) /\ FileBounded

SpecFile == Init /\ [][NextFile]_vars

(***************************************************************************)
(* Resolving short hashes: the three files added and deleted, looked up by *)
(* prefixes of every length, in either case, matching or not.              *)
(***************************************************************************)
MaxResolveJournal == 5

ResolveBounded == Within(MaxResolveJournal, 0, 0)

Prefixes ==
    {<<>>, <<"a">>, <<"A">>, <<"b">>, <<"a", "b">>, <<"A", "B">>, <<"a", "1">>,
     <<"a", "b", "c">>, <<"a", "b", "c", "d">>, <<"A", "B", "C", "E">>,
     <<"a", "1", "0", "0">>, <<"a", "b", "c", "f">>, <<"a", "g">>}

\* the strings get_shortest_hash is called with: short prefixes, a stored
\* hash in uppercase and a hash that is not stored
ShortHashInputs ==
    {<<>>, <<"a", "b">>, <<"a", "b", "c">>, <<"A", "B", "C", "D">>,
     <<"a", "b", "c", "f">>}

NextResolve ==
    \/ \E c \in Contents : AddFile(c, "user") /\ ResolveBounded
    \/ \E p \in Prefixes : Get(p) /\ ResolveBounded
    \/ Delete /\ ResolveBounded
    \/ ShortHash /\ ResolveBounded
    \/ \E h \in ShortHashInputs : GetShortestHash(h) /\ ResolveBounded

SpecResolve == Init /\ [][NextResolve]_vars

(***************************************************************************)
(* Undo over the file groups of a checkpoint: two files in different       *)
(* shards, edited in a writable and a read-only field and never deleted by *)
(* the caller, with a journal that holds both adds, an edit of each file   *)
(* and the entry of an undo.                                               *)
(***************************************************************************)
MaxGroupsJournal == 5
MaxGroupsCheckpoints == 2
MaxGroupsMods == 1

GroupsBounded == Within(MaxGroupsJournal, MaxGroupsCheckpoints, MaxGroupsMods)

NextGroups ==
    \/ \E c \in UndoContents : AddFile(c, "user") /\ GroupsBounded
    \/ \E c \in UndoContents : Get(sha512(c)) /\ GroupsBounded
    \/ \E e \in UndoEdits : SetMetadata(e[1], e[2], "user") /\ GroupsBounded
    \/ Save /\ GroupsBounded
    \/ Checkpoint /\ GroupsBounded
    \/ \E id \in 0..(Len(checkpoints) + 1) : Undo(id) /\ GroupsBounded

SpecGroups == Init /\ [][NextGroups]_vars

(***************************************************************************)
(* Interrupted adds: two files added, with adds that stop short            *)
(* after the journal entry, at the opening of the blob or within its copy, *)
(* looked up and deleted.                                                  *)
(***************************************************************************)
MaxCrashJournal == 4

CrashBounded == Within(MaxCrashJournal, 0, 0)

NextCrash ==
    \/ \E c \in UndoContents : AddFile(c, "user") /\ CrashBounded
    \/ \E c \in UndoContents, fault \in Faults :
          AddFileInterrupted(c, "user", fault) /\ CrashBounded
    \/ \E c \in UndoContents : Get(sha512(c)) /\ CrashBounded
    \/ Delete /\ CrashBounded

SpecCrash == Init /\ [][NextCrash]_vars

(***************************************************************************)
(* Properties.                                                             *)
(***************************************************************************)
\* the transactions of the checkpoint the last call named, before the call
\* ran (<<>> when the journal does not know the id)
CheckpointOf(id) ==
    LET checkpoint == get_checkpoint(journal, checkpoints, id) IN
    IF checkpoint = <<>> THEN <<>> ELSE checkpoint[1]

HasOp(txs, op) == \E i \in 1..Len(txs) : txs[i].op = op

\* the step is a call of undo
UndoStep == last'.op = "undo"

\* C1: undo of a checkpoint that contains a delete raises UndoFailed and
\* changes nothing: the blobs, the shard directories, the index and the
\* journal are after the call what they were before it, whatever else the
\* checkpoint contains and wherever the delete stands in it.
C1_UndoFailedMutatesNothing ==
    [][(UndoStep /\ HasOp(CheckpointOf(last'.cp), "delete"))
       => /\ last'.err = "UndoFailed"
          /\ UNCHANGED <<files, dirs, index, journal>>]_vars

\* C1 happens: undo has raised UndoFailed on a checkpoint in which an add
\* and a set follow the delete
C1_Witness ==
    /\ last.op = "undo"
    /\ last.err = "UndoFailed"
    /\ LET txs == CheckpointOf(last.cp) IN
       \E i, j, k \in 1..Len(txs) :
          /\ i < j /\ j < k
          /\ txs[i].op = "delete" /\ txs[j].op = "add" /\ txs[k].op = "set"

\* C5: the journal is append-only: across every call, successful or
\* failing, the journal before the call is a prefix of the journal after it.
C5_JournalAppendOnly == [][IsPrefix(journal, journal')]_vars

\* C5 happens: an undo has returned normally and the journal ends with the
\* set transaction it appended after the last checkpoint
C5_Witness ==
    /\ last.op = "undo"
    /\ last.err = "ok"
    /\ checkpoints # <<>>
    /\ Len(journal) > checkpoints[Len(checkpoints)]
    /\ journal[Len(journal)].op = "set"
    /\ journal[Len(journal)].time = clock

\* a checkpoint of set transactions only, at least one
OnlySets(txs) == txs # <<>> /\ \A i \in 1..Len(txs) : txs[i].op = "set"

\* C6 as stated: every undo of a checkpoint that holds set transactions and
\* no add or delete leaves the journal strictly longer.
C6_EveryUndoOfSetsGrowsJournal ==
    [][(UndoStep /\ OnlySets(CheckpointOf(last'.cp)))
       => Len(journal') > Len(journal)]_vars

\* C6, amended: an undo that returns normally for a checkpoint of set
\* transactions only appends one set transaction for each of them, so the
\* journal is strictly longer; an undo that raises may leave it as it was.
C6_CompletedUndoOfSetsGrowsJournal ==
    [][(UndoStep /\ OnlySets(CheckpointOf(last'.cp)) /\ last'.err = "ok")
       => /\ Len(journal') = Len(journal) + Len(CheckpointOf(last'.cp))
          /\ Len(journal') > Len(journal)
          /\ \A i \in (Len(journal) + 1)..Len(journal') : journal'[i].op = "set"]_vars

\* C6 happens: an undo of a checkpoint of set transactions has returned
\* normally
C6_Witness ==
    /\ last.op = "undo"
    /\ last.err = "ok"
    /\ last.cp \in 1..Len(checkpoints)
    /\ OnlySets(CheckpointOf(last.cp))

\* the hashes that have a blob
StoredHashes == {p[2] : p \in files}

\* each hash has at most one blob, and that one in the shard of its first
\* two characters
OneBlobPerHash ==
    \A h \in StoredHashes :
       /\ Cardinality({p \in files : p[2] = h}) = 1
       /\ \A p \in files : p[2] = h => p[1] = SubSeq(h, 1, 2)

\* C4: adding content whose digest already has a blob raises FileExists
\* (and only then), and the failed add changes nothing: the blobs, the shard
\* directories, the index and the journal stay as they were; after every
\* add each hash has at most one blob.
C4_DuplicateAddChangesNothing ==
    [][last'.op = "add"
       => /\ last'.err = "FileExists" <=> last'.arg \in StoredHashes
          /\ last'.err = "FileExists" => UNCHANGED <<files, dirs, index, journal>>
          /\ last'.err = "ok" =>
               /\ StoredHashes' = StoredHashes \cup {last'.arg}
               /\ Len(journal') = Len(journal) + 1
          /\ OneBlobPerHash']_vars

\* C4 happens: an add has raised FileExists while other blobs are stored
C4_Witness ==
    /\ last.op = "add"
    /\ last.err = "FileExists"
    /\ Cardinality(files) >= 2

\* the short hash in lowercase
Lowered(s) == [i \in 1..Len(s) |-> lower(s[i])]

\* the stored hashes that begin with the string p
Beginning(p) == {h \in StoredHashes : IsPrefix(p, h)}

\* C7: get of a hexadecimal short hash raises FileDoesNotExist if no stored
\* hash begins with the lowercased prefix, AmbiguousHash if two or more do,
\* and otherwise returns the File of the one stored hash that does.
C7_GetResolvesPrefix ==
    (last.op = "get" /\ \A i \in 1..Len(last.arg) : last.arg[i] \in hexdigits)
    => LET found == Beginning(Lowered(last.arg)) IN
       /\ found = {} => last.err = "FileDoesNotExist"
       /\ Cardinality(found) >= 2 => last.err = "AmbiguousHash"
       /\ Cardinality(found) = 1 =>
            /\ last.err = "ok"
            /\ last.ret \in found
            /\ cur # <<>> /\ cur[1].hash \in found
            /\ cur[1].modifications = <<>>

\* C7 happens: an uppercase prefix has resolved to the one stored file of
\* its shard while another shard holds a file too
C7_Witness ==
    /\ last.op = "get"
    /\ last.err = "ok"
    /\ last.arg = <<"A", "B">>
    /\ Cardinality(files) = 2

\* the even lengths get_shortest_hash goes through for the hash h
EvenLengths(h) == {2 * k : k \in 1..((Len(h) + 1) \div 2)}

\* C8: for a stored hash h, get_shortest_hash(h) is h[:L] for the smallest
\* even L >= 2 at which find_hashes(h[:L]) yields exactly {h}, and get of
\* that prefix returns the file h.  With one stored file L is 2; when the
\* other stored hashes of h's shard differ from h within characters 3-4,
\* the result has 4 characters.
C8_ShortestHashIsMinimal ==
    (last.op = "short_hash" /\ last.arg \in StoredHashes)
    => LET h == last.arg IN
       /\ last.err = "ok"
       /\ \E L \in EvenLengths(h) :
             /\ last.ret = Take(h, L)
             /\ find_hashes(files, Take(h, L)) = {h}
             /\ \A M \in EvenLengths(h) :
                   M < L => find_hashes(files, Take(h, M)) # {h}
       /\ Beginning(last.ret) = {h}
       /\ get(files, index, last.ret).err = "ok"
       /\ get(files, index, last.ret).f[1].hash = h
       /\ Cardinality(files) = 1 => last.ret = SubSeq(h, 1, 2)
       /\ LET shard == Beginning(SubSeq(h, 1, 2)) \ {h} IN
          (shard # {} /\ \A g \in shard : SubSeq(g, 3, 4) # SubSeq(h, 3, 4))
          => last.ret = SubSeq(h, 1, 4)

\* C8 happens: the short hash of a file has 4 characters because another
\* stored file shares its shard, while a third file is in another shard
C8_Witness ==
    /\ last.op = "short_hash"
    /\ last.err = "ok"
    /\ Len(last.ret) = 4
    /\ Cardinality(files) = 3

\* the journal positions of the checkpoint the last call named
CheckpointSpan(id) ==
    LET k == IF id = latest THEN Len(checkpoints) ELSE id IN
    IF k \notin 1..Len(checkpoints) THEN {}
    ELSE ((IF k = 1 THEN 0 ELSE checkpoints[k - 1]) + 1)..checkpoints[k]

\* C2: after undo of a checkpoint, every field of every file that a set
\* transaction of the checkpoint touched has, in the saved metadata, the
\* value it had just before the checkpoint's first transaction on it
\* (none if it was absent), also when the checkpoint holds several set
\* transactions on one field.
C2_UndoRestoresPriorValues ==
    (last.op = "undo" /\ last.err = "ok")
    => LET span == CheckpointSpan(last.cp) IN
       \A i \in span :
          journal[i].op = "set" =>
             LET first == CHOOSE k \in span :
                             /\ journal[k].op = "set"
                             /\ journal[k].file = journal[i].file
                             /\ journal[k].extra[1] = journal[i].extra[1]
                             /\ \A m \in span :
                                   (/\ journal[m].op = "set"
                                    /\ journal[m].file = journal[i].file
                                    /\ journal[m].extra[1] = journal[i].extra[1])
                                   => k <= m
             IN  dict_get(searchdb_get(index, journal[i].file), journal[i].extra[1])
                    = hist[first]

\* C3: after undo of a checkpoint of add transactions only, no file added
\* in the checkpoint has a blob or an index entry, and get of its hash
\* raises FileDoesNotExist.
C3_UndoOfAddsRemovesEveryFile ==
    (last.op = "undo" /\ CheckpointSpan(last.cp) # {}
       /\ \A i \in CheckpointSpan(last.cp) : journal[i].op = "add")
    => \A i \in CheckpointSpan(last.cp) :
          /\ get_filename_for_hash(journal[i].file) \notin files
          /\ journal[i].file \notin DOMAIN index
          /\ get(files, index, journal[i].file).err = "FileDoesNotExist"

\* the set transactions of the file that restore_metadata does not skip
Restorable(hash, field, only_auto) ==
    LET txs == get_transactions(journal, hash, "set") IN
    {i \in 1..Len(txs) :
        txs[i].extra[1] = field /\ ~(only_auto /\ txs[i].source = "auto")}

\* C9: restore_metadata(f, only_auto) sets each field of f to the new value
\* of the most recent set transaction of the journal for that file and
\* field, leaving out the transactions of source auto when only_auto is
\* true: after title "A" by the user and title "B" by an importer, title is
\* "A" with only_auto and "B" without.
C9_RestoreMetadataReplaysJournal ==
    last.op = "restore_metadata"
    => /\ last.err = "ok"
       /\ \A field \in FieldNames :
             LET txs == get_transactions(journal, cur[1].hash, "set")
                 kept == Restorable(cur[1].hash, field, last.source = "only_auto")
             IN  kept # {} =>
                   dict_get(cur[1].metadata, field) =
                      txs[CHOOSE i \in kept : \A k \in kept : k <= i].extra[3]

\* C10: set_metadata raises FieldDoesNotExist for a field outside the
\* schema and FieldReadOnly for a read-only field the file already has,
\* whatever the new value; a call that raises leaves the file's metadata
\* and pending modifications as they were; and no set_metadata call
\* changes the value of a read-only field the file has.
C10_SetMetadataKeepsSchema ==
    [][last'.op = "set_metadata"
       => LET field == last'.field
              f == cur[1]
          IN  /\ field \notin DOMAIN fields => last'.err = "FieldDoesNotExist"
              /\ (field \in DOMAIN fields /\ fields[field].read_only
                    /\ field \in DOMAIN f.metadata)
                 => last'.err = "FieldReadOnly"
              /\ last'.err \in {"FieldDoesNotExist", "FieldReadOnly"} => cur' = cur
              /\ \A k \in FieldNames :
                    (fields[k].read_only /\ k \in DOMAIN f.metadata)
                    => /\ k \in DOMAIN cur'[1].metadata
                       /\ cur'[1].metadata[k] = f.metadata[k]]_vars

\* C10 happens: set_metadata with the value None has raised FieldReadOnly
C10_Witness ==
    /\ last.op = "set_metadata"
    /\ last.err = "FieldReadOnly"
    /\ last.arg = None
    /\ dict_get(cur[1].metadata, "origin") = <<"A">>

\* C11 as stated: delete of a stored file returns normally, with the blob
\* unlinked and the index entry removed, whether the shard directory still
\* holds other blobs or has become empty.
C11_DeleteReturnsNormally ==
    [][(last'.op = "delete" /\ get_filename_for_hash(last'.arg) \in files)
       => /\ last'.err = "ok"
          /\ get_filename_for_hash(last'.arg) \notin files'
          /\ last'.arg \notin DOMAIN index']_vars

\* the journal knows the checkpoint id
KnownCheckpoint(id) ==
    \/ id \in 1..Len(checkpoints)
    \/ id = latest /\ checkpoints # <<>>

\* C12: undo of a checkpoint id the journal does not know raises
\* CheckpointDoesNotExist (and no other undo does), and the failed call
\* leaves the blobs, the shard directories, the index and the journal as
\* they were.
C12_UndoOfUnknownCheckpoint ==
    [][UndoStep
       => /\ last'.err = "CheckpointDoesNotExist" <=> ~KnownCheckpoint(last'.cp)
          /\ ~KnownCheckpoint(last'.cp)
             => UNCHANGED <<files, partial, dirs, index, journal>>]_vars

\* C12 happens: undo has raised CheckpointDoesNotExist for the id after the
\* last checkpoint of a store that holds a file
C12_Witness ==
    /\ last.op = "undo"
    /\ last.err = "CheckpointDoesNotExist"
    /\ checkpoints # <<>>
    /\ last.cp = Len(checkpoints) + 1
    /\ files # {}

\* the blobs whose content is complete
Complete == files \ partial

\* the step appended to the journal exactly one add transaction for `hash`
AppendedAdd(hash, source) ==
    /\ Len(journal') = Len(journal) + 1
    /\ SubSeq(journal', 1, Len(journal)) = journal
    /\ journal'[Len(journal')].op = "add"
    /\ journal'[Len(journal')].file = hash
    /\ journal'[Len(journal')].source = source

\* C13: an add that is cut short between the journal append and the end of
\* the blob copy leaves the journal with the add transaction of the hash
\* while no complete blob of the hash exists (and the index entry too when
\* the failure is an I/O failure of the blob write); and no add writes a
\* blob, whole or in part, without the journal holding its add transaction.
C13_JournalAddPrecedesBlob ==
    [][last'.op = "add"
       => LET hash == last'.arg
              filename == get_filename_for_hash(hash)
          IN  /\ last'.err \in {"crash", "OSError"}
                 => /\ AppendedAdd(hash, last'.source)
                    /\ filename \notin Complete'
                    /\ last'.err = "OSError" => hash \in DOMAIN index'
              /\ filename \in files' \ files => AppendedAdd(hash, last'.source)]_vars

\* C13 happens: an add has failed within the copy of its blob, and the
\* journal ends with its add transaction while the blob on disk is partial
C13_Witness ==
    /\ last.op = "add"
    /\ last.err = "OSError"
    /\ get_filename_for_hash(last.arg) \in partial
    /\ journal[Len(journal)].op = "add"
    /\ journal[Len(journal)].file = last.arg
    /\ Complete # {}

\* C14 as stated: when an undo of a checkpoint of set transactions returns
\* normally, the set transactions it appended to the journal correspond one
\* to one, in undo's order, to the set transactions it reverted, and each
\* carries the field and the source (user or auto) of the one it reverts.
C14_UndoKeepsSource ==
    [][(UndoStep /\ last'.err = "ok" /\ OnlySets(CheckpointOf(last'.cp)))
       => LET txs == sorted(CheckpointOf(last'.cp)) IN
          /\ Len(journal') = Len(journal) + Len(txs)
          /\ \A i \in 1..Len(txs) :
                /\ journal'[Len(journal) + i].op = "set"
                /\ journal'[Len(journal) + i].file = txs[i].file
                /\ journal'[Len(journal) + i].extra[1] = txs[i].extra[1]
                /\ journal'[Len(journal) + i].source = txs[i].source]_vars

\* C15: a set_metadata call, successful or failing, leaves the blobs, the
\* shard directories, the index and the journal as they were; a step that
\* appends a set transaction to the journal or changes the indexed metadata
\* of a file is a save of that file.
C15_SetMetadataIsNotDurable ==
    [][/\ last'.op = "set_metadata"
          => UNCHANGED <<files, partial, dirs, index, journal>>
       /\ (\E i \in (Len(journal) + 1)..Len(journal') : journal'[i].op = "set")
          => /\ last'.op = "save"
             /\ \A i \in (Len(journal) + 1)..Len(journal') :
                   journal'[i].file = last'.arg
       /\ \A h \in DOMAIN index \cap DOMAIN index' :
             index'[h] # index[h] => last'.op = "save" /\ last'.arg = h]_vars

\* C15 happens: after a set_metadata the file in memory has the title "A"
\* while the index still holds the title "B" saved before
C15_Witness ==
    /\ last.op = "set_metadata"
    /\ last.err = "ok"
    /\ dict_get(cur[1].metadata, "title") = <<"A">>
    /\ dict_get(searchdb_get(index, cur[1].hash), "title") = <<"B">>

\* C16: save(f) appends to the journal one set transaction for each pending
\* modification of f, in the order the modifications were made, each with
\* the source, field, old value and new value of its modification and all
\* with one timestamp; the index then holds f's metadata and the pending
\* list is empty, so a save that follows a save appends nothing.
C16_SaveAppendsPendingModifications ==
    [][last'.op = "save"
       => LET f == cur[1]
              mods == f.modifications
              n == Len(journal)
          IN  /\ last'.err = "ok"
              /\ Len(journal') = n + Len(mods)
              /\ SubSeq(journal', 1, n) = journal
              /\ \A i \in 1..Len(mods) :
                    /\ journal'[n + i].op = "set"
                    /\ journal'[n + i].file = f.hash
                    /\ journal'[n + i].source = mods[i][1]
                    /\ journal'[n + i].extra = <<mods[i][2], mods[i][3], mods[i][4]>>
                    /\ journal'[n + i].time = journal'[n + 1].time
              /\ index'[f.hash] = f.metadata
              /\ cur'[1].modifications = <<>>
              /\ cur'[1].metadata = f.metadata
              /\ last.op = "save" => journal' = journal]_vars

\* C16 happens: a save has appended two set transactions of different
\* sources with one timestamp
C16_Witness ==
    /\ last.op = "save"
    /\ Len(journal) >= 3
    /\ journal[Len(journal)].op = "set"
    /\ journal[Len(journal) - 1].op = "set"
    /\ journal[Len(journal)].time = journal[Len(journal) - 1].time
    /\ journal[Len(journal)].source # journal[Len(journal) - 1].source
    /\ journal[Len(journal)].extra # journal[Len(journal) - 1].extra

\* C17: a successful set_metadata(field, value, source) appends the one
\* entry (source, field, old value, value) to the pending modifications,
\* the old value being None for a field the file did not have; afterwards
\* the metadata maps field to value, or does not hold the field at all when
\* value is None; every other key of the metadata is as it was.
C17_SetMetadataRecordsEdit ==
    [][(last'.op = "set_metadata" /\ last'.err = "ok")
       => LET f == cur[1]
              g == cur'[1]
              field == last'.field
              value == last'.arg
              old_value == IF field \in DOMAIN f.metadata
                           THEN f.metadata[field] ELSE None
          IN  /\ g.modifications =
                    Append(f.modifications, <<last'.source, field, old_value, value>>)
              /\ value = None => field \notin DOMAIN g.metadata
              /\ value # None => field \in DOMAIN g.metadata /\ g.metadata[field] = value
              /\ DOMAIN g.metadata \ {field} = DOMAIN f.metadata \ {field}
              /\ \A k \in DOMAIN f.metadata \ {field} : g.metadata[k] = f.metadata[k]
              /\ g.hash = f.hash]_vars

\* C17 happens: set_metadata with the value None has removed the title "A"
\* from the metadata and recorded "A" as the old value
C17_Witness ==
    /\ last.op = "set_metadata"
    /\ last.err = "ok"
    /\ last.arg = None
    /\ last.field = "title"
    /\ "title" \notin DOMAIN cur[1].metadata
    /\ cur[1].modifications[Len(cur[1].modifications)][3] = <<"A">>

\* C18 as stated, for a checkpoint each of whose files is stored and has an
\* add in the checkpoint: undo deletes every such file (its blob and its
\* index entry are gone) and appends no set transaction for it.
C18_UndoDeletesEveryAddedFile ==
    [][(UndoStep /\ KnownCheckpoint(last'.cp))
       => LET txs == CheckpointOf(last'.cp)
              added == {txs[i].file : i \in {k \in 1..Len(txs) : txs[k].op = "add"}}
          IN  (/\ \A i \in 1..Len(txs) : txs[i].op \in CAN_UNDO
               /\ \A i \in 1..Len(txs) :
                     /\ txs[i].file \in added
                     /\ get_filename_for_hash(txs[i].file) \in files)
              => \A h \in added :
                    /\ get_filename_for_hash(h) \notin files'
                    /\ h \notin DOMAIN index'
                    /\ \A k \in (Len(journal) + 1)..Len(journal') :
                          ~(journal'[k].op = "set" /\ journal'[k].file = h)]_vars

\* the operation of the most recent add or delete transaction of the hash
\* in the journal ("none" if there is none)
LastAddOrDelete(hash) ==
    LET S == {i \in 1..Len(journal) :
                journal[i].file = hash /\ journal[i].op \in {"add", "delete"}}
    IN  IF S = {} THEN "none"
        ELSE journal[CHOOSE i \in S : \A k \in S : k <= i].op

UndoErrors ==
    {"CheckpointDoesNotExist", "UndoFailed", "FileDoesNotExist", "AmbiguousHash",
     "FieldReadOnly", "FieldDoesNotExist"}

\* C20 as stated: whenever undo raises one of its errors, the blobs, the
\* shard directories, the index and the journal are what they were before
\* the call.
C20_FailedUndoChangesNothing ==
    [][(UndoStep /\ last'.err \in UndoErrors)
       => UNCHANGED <<files, partial, dirs, index, journal>>]_vars

\* C21 as stated: get_shortest_hash of a hexadecimal string comes to an end
\* whatever the store holds, with a prefix that at most one stored hash
\* matches, also for a short prefix that several stored hashes match and
\* for a hash that is not stored.
C21_GetShortestHashTerminates ==
    (last.op = "get_shortest_hash" /\ \A i \in 1..Len(last.arg) : last.arg[i] \in hexdigits)
    => /\ last.err = "ok"
       /\ Cardinality(find_hashes(files, last.ret)) <= 1

====
